---------------------------- MODULE Spec2Model ----------------------------
(*************************************************************************)
(* Model of src/auth/password-scheme.c: the password scheme registry,    *)
(* scheme lookup, and the dispatch operations password_verify,            *)
(* password_decode, password_generate, password_generate_encoded,         *)
(* password_scheme_is_alias, password_get_scheme, password_list_schemes.  *)
(*                                                                         *)
(* C strings and byte buffers are sequences of byte values 0..255; a C    *)
(* string never holds the byte 0.                                          *)
(*************************************************************************)
EXTENDS Integers, Sequences, FiniteSets, TLC

(*************************************************************************)
(* Characters                                                              *)
(*************************************************************************)

\* the ASCII characters with codes 35..91 and 97..126, in code order
AsciiUpper == "#$%&'()*+,-./0123456789:;<=>?@ABCDEFGHIJKLMNOPQRSTUVWXYZ["
AsciiLower == "abcdefghijklmnopqrstuvwxyz{|}~"

\* code of a one-character string
Ord(c) ==
  IF \E i \in 1..Len(AsciiUpper) : SubSeq(AsciiUpper, i, i) = c
  THEN 34 + (CHOOSE i \in 1..Len(AsciiUpper) : SubSeq(AsciiUpper, i, i) = c)
  ELSE 96 + (CHOOSE i \in 1..Len(AsciiLower) : SubSeq(AsciiLower, i, i) = c)

\* a string literal as the sequence of its character codes
Str(s) == [i \in 1..Len(s) |-> Ord(SubSeq(s, i, i))]

\* the string literals of password-scheme.c
b64 == Str("b64")
base64 == Str("base64")
hex == Str("hex")
md5_crypt_magic == Str("$1$")
MD5_CRYPT == Str("MD5-CRYPT")

\* the null pointer: distinct from every string and every buffer
NULL == <<-1>>

tolower(c) == IF c >= 65 /\ c <= 90 THEN c + 32 ELSE c

\* strcasecmp(a, b) == 0
strcaseeq(a, b) ==
  /\ Len(a) = Len(b)
  /\ \A i \in 1..Len(a) : tolower(a[i]) = tolower(b[i])

\* strncasecmp(a, b, n) == 0: the first n characters agree, or both strings
\* end, at the same place, before that
strncaseeq(a, b, n) ==
  LET la == IF Len(a) < n THEN Len(a) ELSE n
      lb == IF Len(b) < n THEN Len(b) ELSE n
  IN  /\ la = lb
      /\ \A i \in 1..la : tolower(a[i]) = tolower(b[i])

\* index of the first occurrence of c in s at or after position from, 0 if none
RECURSIVE strchr(_, _, _)
strchr(s, from, c) ==
  IF from > Len(s) THEN 0
  ELSE IF s[from] = c THEN from
  ELSE strchr(s, from + 1, c)

\* t_strcut(s, c): s up to, not including, the first c
t_strcut(s, c) ==
  LET p == strchr(s, 1, c)
  IN  IF p = 0 THEN s ELSE SubSeq(s, 1, p - 1)

\* t_strndup(data, size): the bytes of data as a C string: at most size bytes,
\* ending before the first zero byte
t_strndup(data, size) ==
  LET n == IF size < Len(data) THEN size ELSE Len(data)
      z == strchr(SubSeq(data, 1, n), 1, 0)
  IN  IF z = 0 THEN SubSeq(data, 1, n) ELSE SubSeq(data, 1, z - 1)

\* memcmp(a, b, n) == 0
memeq(a, b, n) == \A i \in 1..n : a[i] = b[i]

(*************************************************************************)
(* Codecs (lib/hex-binary.c, lib/base64.c)                                *)
(*************************************************************************)

hexchars == Str("0123456789abcdef")

\* binary_to_hex: two lowercase hex digits per byte
binary_to_hex(data) ==
  [i \in 1..(2 * Len(data)) |->
     LET b == data[(i + 1) \div 2]
     IN  IF i % 2 = 1 THEN hexchars[(b \div 16) + 1] ELSE hexchars[(b % 16) + 1]]

\* value of a hex digit, -1 for any other character
hexval(c) ==
  IF c >= 48 /\ c <= 57 THEN c - 48
  ELSE IF c >= 97 /\ c <= 102 THEN c - 97 + 10
  ELSE IF c >= 65 /\ c <= 70 THEN c - 65 + 10
  ELSE -1

\* hex_to_binary: ret 0 and the bytes, or ret -1 on a non-hex character or an
\* odd number of digits
hex_to_binary(text) ==
  IF Len(text) % 2 = 0 /\ \A i \in 1..Len(text) : hexval(text[i]) >= 0
  THEN [ret |-> 0,
        data |-> [i \in 1..(Len(text) \div 2) |->
                    hexval(text[2 * i - 1]) * 16 + hexval(text[2 * i])]]
  ELSE [ret |-> -1, data |-> <<>>]

b64chars ==
  Str("ABCDEFGHIJKLMNOPQRSTUVWXYZabcdefghijklmnopqrstuvwxyz0123456789+/")

\* base64_encode: standard alphabet, '=' padding, no line breaks
RECURSIVE base64_encode(_)
base64_encode(data) ==
  LET n == Len(data)
      c(v) == b64chars[v + 1]
      pad == 61
  IN  IF n = 0 THEN <<>>
      ELSE IF n = 1 THEN
        <<c(data[1] \div 4), c((data[1] % 4) * 16), pad, pad>>
      ELSE IF n = 2 THEN
        <<c(data[1] \div 4), c((data[1] % 4) * 16 + data[2] \div 16),
          c((data[2] % 16) * 4), pad>>
      ELSE
        <<c(data[1] \div 4), c((data[1] % 4) * 16 + data[2] \div 16),
          c((data[2] % 16) * 4 + data[3] \div 64), c(data[3] % 64)>>
        \o base64_encode(SubSeq(data, 4, n))

\* index_64: value of a base64 character, -1 for any other character
b64val(ch) ==
  IF ch >= 65 /\ ch <= 90 THEN ch - 65
  ELSE IF ch >= 97 /\ ch <= 122 THEN ch - 97 + 26
  ELSE IF ch >= 48 /\ ch <= 57 THEN ch - 48 + 52
  ELSE IF ch = 43 THEN 62
  ELSE IF ch = 47 THEN 63
  ELSE -1

\* whitespace that base64_decode skips between quantums
b64empty(ch) == ch \in {32, 9, 13, 10}

\* base64_decode: whole quantums of four characters; ret -1 on a character
\* outside the alphabet, ret 0 after a padded quantum, ret 1 otherwise; fewer
\* than four trailing characters are left undecoded
RECURSIVE base64_decode(_, _, _)
base64_decode(text, pos, acc) ==
  IF pos + 3 > Len(text) THEN [ret |-> 1, data |-> acc]
  ELSE
    LET i0 == b64val(text[pos])
        i1 == b64val(text[pos + 1])
        i2 == b64val(text[pos + 2])
        i3 == b64val(text[pos + 3])
        o0 == (i0 * 4 + i1 \div 16) % 256
        o1 == ((i1 % 16) * 16 + i2 \div 4) % 256
        o2 == ((i2 % 4) * 64 + i3) % 256
    IN  IF i0 < 0 THEN
          IF b64empty(text[pos]) THEN base64_decode(text, pos + 1, acc)
          ELSE [ret |-> -1, data |-> acc]
        ELSE IF i1 < 0 THEN [ret |-> -1, data |-> acc]
        ELSE IF i2 < 0 THEN
          IF text[pos + 2] # 61 \/ text[pos + 3] # 61
          THEN [ret |-> -1, data |-> acc]
          ELSE [ret |-> 0, data |-> Append(acc, o0)]
        ELSE IF i3 < 0 THEN
          IF text[pos + 3] # 61 THEN [ret |-> -1, data |-> acc]
          ELSE [ret |-> 0, data |-> acc \o <<o0, o1>>]
        ELSE base64_decode(text, pos + 4, acc \o <<o0, o1, o2>>)

(*************************************************************************)
(* Collaborators outside this file: digests, crypt, one-time passwords.   *)
(* Each digest is a fixed function of its message with the real result    *)
(* length.                                                                 *)
(*************************************************************************)

SHA1_RESULTLEN == 20
MD5_RESULTLEN == 16
MD4_RESULTLEN == 16
CRAM_MD5_CONTEXTLEN == 32
LM_HASH_SIZE == 16
NTLMSSP_HASH_SIZE == 16

RECURSIVE SumBytes(_)
SumBytes(msg) == IF msg = <<>> THEN 0 ELSE Head(msg) + SumBytes(Tail(msg))

\* a digest of n bytes of the message msg; kind tells the primitives apart
Digest(kind, msg, n) ==
  [i \in 1..n |-> (kind * 17 + i * 29 + SumBytes(msg) * 3 + Len(msg) * 101) % 256]

sha1_get_digest(msg) == Digest(1, msg, SHA1_RESULTLEN)
md5_get_digest(msg) == Digest(2, msg, MD5_RESULTLEN)
md4_get_digest(msg) == Digest(3, msg, MD4_RESULTLEN)
hmac_md5_get_cram_context(key) == Digest(4, key, CRAM_MD5_CONTEXTLEN)
lm_hash(plaintext) == Digest(5, plaintext, LM_HASH_SIZE)
ntlm_v1_hash(plaintext) == Digest(6, plaintext, NTLMSSP_HASH_SIZE)
password_generate_rpa(plaintext) == Digest(7, plaintext, MD5_RESULTLEN)

salt_chars ==
  Str("./0123456789ABCDEFGHIJKLMNOPQRSTUVWXYZabcdefghijklmnopqrstuvwxyz")

\* a digest printed in the crypt alphabet
CryptText(bytes) == [i \in 1..Len(bytes) |-> salt_chars[(bytes[i] % 64) + 1]]

\* mycrypt(key, salt): the two salt characters, then eleven characters of
\* the hash of key under that salt; an empty salt gives an empty result
mycrypt(key, salt) ==
  IF salt = <<>> THEN <<>>
  ELSE LET s2 == IF Len(salt) >= 2 THEN SubSeq(salt, 1, 2) ELSE <<salt[1], 46>>
       IN  s2 \o CryptText(Digest(8, key \o s2, 11))

\* password_generate_md5_crypt(pw, salt): "$1$", the salt (after a leading
\* "$1$", up to the first '$', at most 8 characters), '$', 22 hash characters
password_generate_md5_crypt(pw, salt) ==
  LET magic == md5_crypt_magic
      sp == IF Len(salt) >= 3 /\ SubSeq(salt, 1, 3) = magic
            THEN SubSeq(salt, 4, Len(salt)) ELSE salt
      d == strchr(sp, 1, 36)
      e == IF d = 0 THEN Len(sp) ELSE d - 1
      sl == IF e > 8 THEN 8 ELSE e
      st == SubSeq(sp, 1, sl)
  IN  magic \o st \o <<36>> \o CryptText(Digest(9, pw \o st, 22))

\* the database entry of a one-time password state: algorithm digit, tab,
\* seed, tab, hash in hex
otp_print_dbentry(algo, seed, pw) ==
  <<48 + algo, 9>> \o seed \o <<9>> \o binary_to_hex(Digest(9 + algo, pw \o seed, 4))

\* password_generate_otp(pw, data, algo): with data NULL a new entry for the
\* algorithm with a random seed; otherwise the entry recomputed for pw from
\* the algorithm and seed parsed out of data, and "" if data does not parse
password_generate_otp(pw, data, algo, rnd) ==
  IF data = NULL
  THEN otp_print_dbentry(algo, CryptText(SubSeq(rnd, 1, 2)), pw)
  ELSE LET t == IF Len(data) >= 2 THEN strchr(data, 3, 9) ELSE 0
       IN  IF Len(data) >= 2 /\ data[1] \in {49, 50, 51} /\ data[2] = 9 /\ t > 3
           THEN otp_print_dbentry(data[1] - 48, SubSeq(data, 3, t - 1), pw)
           ELSE <<>>

OTP_HASH_MD4 == 1
OTP_HASH_SHA1 == 3

(*************************************************************************)
(* Generators and verifiers (password-scheme.c:252-548).                  *)
(* rnd is the stream of bytes random_fill() delivers to this call.        *)
(* A generator yields [panic, raw]: i_panic() was called, or the bytes    *)
(* stored through raw_password_r (size_r is their number).                *)
(* A verifier yields [panic, match, calls].                               *)
(*************************************************************************)

random_fill(rnd, n) == SubSeq(rnd, 1, n)

\* salt[i] = salt_chars[salt[i] % (sizeof(salt_chars)-1)]: the char is
\* converted to size_t before the remainder, so the index is within 0..63
\* for a negative char as well
SaltChar(b) == salt_chars[(b % 64) + 1]

Generated(raw) == [panic |-> FALSE, raw |-> raw]

\* crypt_verify without its test of size == 0
crypt_verify_unguarded(plaintext, user, raw_password, size) ==
  LET password == t_strndup(raw_password, size)
  IN  [panic |-> FALSE,
       match |-> mycrypt(plaintext, password) = password,
       calls |-> <<"mycrypt">>]

crypt_verify(plaintext, user, raw_password, size) ==
  IF size = 0 THEN [panic |-> FALSE, match |-> FALSE, calls |-> <<>>]
  ELSE LET password == t_strndup(raw_password, size)
       IN  [panic |-> FALSE,
            match |-> mycrypt(plaintext, password) = password,
            calls |-> <<"mycrypt">>]

crypt_generate(plaintext, user, rnd) ==
  LET r == random_fill(rnd, 2)
      salt == <<SaltChar(r[1]), SaltChar(r[2])>>
  IN  Generated(mycrypt(plaintext, salt))

md5_crypt_verify(plaintext, user, raw_password, size) ==
  LET password == t_strndup(raw_password, size)
  IN  [panic |-> FALSE,
       match |-> password_generate_md5_crypt(plaintext, password) = password,
       calls |-> <<"password_generate_md5_crypt">>]

md5_crypt_generate(plaintext, user, rnd) ==
  LET r == random_fill(rnd, 8)
      salt == [i \in 1..8 |-> SaltChar(r[i])]
  IN  Generated(password_generate_md5_crypt(plaintext, salt))

sha1_generate(plaintext, user, rnd) == Generated(sha1_get_digest(plaintext))

SSHA_SALT_LEN == 4

ssha_generate(plaintext, user, rnd) ==
  LET salt == random_fill(rnd, SSHA_SALT_LEN)
  IN  Generated(sha1_get_digest(plaintext \o salt) \o salt)

\* ssha_verify hashing the plaintext without the salt of the stored value
ssha_verify_unsalted(plaintext, user, raw_password, size) ==
  IF size <= SHA1_RESULTLEN
  THEN [panic |-> FALSE, match |-> FALSE, calls |-> <<"i_error">>]
  ELSE [panic |-> FALSE,
        match |-> memeq(sha1_get_digest(plaintext), raw_password, SHA1_RESULTLEN),
        calls |-> <<"sha1_result">>]

ssha_verify(plaintext, user, raw_password, size) ==
  IF size <= SHA1_RESULTLEN
  THEN [panic |-> FALSE, match |-> FALSE, calls |-> <<"i_error">>]
  ELSE LET sha1_digest ==
             sha1_get_digest(plaintext \o SubSeq(raw_password, SHA1_RESULTLEN + 1, size))
       IN  [panic |-> FALSE,
            match |-> memeq(sha1_digest, raw_password, SHA1_RESULTLEN),
            calls |-> <<"sha1_result">>]

SMD5_SALT_LEN == 4

smd5_generate(plaintext, user, rnd) ==
  LET salt == random_fill(rnd, SMD5_SALT_LEN)
  IN  Generated(md5_get_digest(plaintext \o salt) \o salt)

smd5_verify(plaintext, user, raw_password, size) ==
  IF size <= MD5_RESULTLEN
  THEN [panic |-> FALSE, match |-> FALSE, calls |-> <<"i_error">>]
  ELSE LET md5_digest ==
             md5_get_digest(plaintext \o SubSeq(raw_password, MD5_RESULTLEN + 1, size))
       IN  [panic |-> FALSE,
            match |-> memeq(md5_digest, raw_password, MD5_RESULTLEN),
            calls |-> <<"md5_final">>]

plain_generate(plaintext, user, rnd) == Generated(plaintext)

cram_md5_generate(plaintext, user, rnd) ==
  Generated(hmac_md5_get_cram_context(plaintext))

digest_md5_generate(plaintext, user, rnd) ==
  IF user = NULL THEN [panic |-> TRUE, raw |-> <<>>]
  ELSE LET at == strchr(user, 1, 64)
           realm == IF at # 0 THEN SubSeq(user, at + 1, Len(user)) ELSE <<>>
           str == t_strcut(user, 64) \o <<58>> \o realm \o <<58>> \o plaintext
       IN  Generated(md5_get_digest(str))

plain_md4_generate(plaintext, user, rnd) == Generated(md4_get_digest(plaintext))

plain_md5_generate(plaintext, user, rnd) == Generated(md5_get_digest(plaintext))

lm_generate(plaintext, user, rnd) == Generated(lm_hash(plaintext))

ntlm_generate(plaintext, user, rnd) == Generated(ntlm_v1_hash(plaintext))

otp_verify(plaintext, user, raw_password, size) ==
  LET password == t_strndup(raw_password, size)
  IN  [panic |-> FALSE,
       match |-> strcaseeq(password,
                           password_generate_otp(plaintext, password, -1, <<>>)),
       calls |-> <<"password_generate_otp">>]

otp_generate(plaintext, user, rnd) ==
  Generated(password_generate_otp(plaintext, NULL, OTP_HASH_SHA1, rnd))

skey_generate(plaintext, user, rnd) ==
  Generated(password_generate_otp(plaintext, NULL, OTP_HASH_MD4, rnd))

rpa_generate(plaintext, user, rnd) == Generated(password_generate_rpa(plaintext))

(*************************************************************************)
(* Scheme descriptors and the registry                                    *)
(*************************************************************************)

\* struct password_scheme; the function pointers are named by the function
\* they point to, "NULL" for a null function pointer
Scheme(name, encoding, len, verify, generate) ==
  [name |-> name, default_encoding |-> encoding, raw_password_len |-> len,
   password_verify |-> verify, password_generate |-> generate]

default_schemes ==
  << Scheme(Str("CRYPT"), "PW_ENCODING_NONE", 0, "crypt_verify", "crypt_generate"),
     Scheme(Str("MD5"), "PW_ENCODING_NONE", 0, "md5_crypt_verify", "md5_crypt_generate"),
     Scheme(Str("MD5-CRYPT"), "PW_ENCODING_NONE", 0,
            "md5_crypt_verify", "md5_crypt_generate"),
     Scheme(Str("SHA"), "PW_ENCODING_BASE64", SHA1_RESULTLEN, "NULL", "sha1_generate"),
     Scheme(Str("SHA1"), "PW_ENCODING_BASE64", SHA1_RESULTLEN, "NULL", "sha1_generate"),
     Scheme(Str("SMD5"), "PW_ENCODING_BASE64", 0, "smd5_verify", "smd5_generate"),
     Scheme(Str("SSHA"), "PW_ENCODING_BASE64", 0, "ssha_verify", "ssha_generate"),
     Scheme(Str("PLAIN"), "PW_ENCODING_NONE", 0, "NULL", "plain_generate"),
     Scheme(Str("CLEARTEXT"), "PW_ENCODING_NONE", 0, "NULL", "plain_generate"),
     Scheme(Str("CRAM-MD5"), "PW_ENCODING_HEX", 0, "NULL", "cram_md5_generate"),
     Scheme(Str("HMAC-MD5"), "PW_ENCODING_HEX", CRAM_MD5_CONTEXTLEN,
            "NULL", "cram_md5_generate"),
     Scheme(Str("DIGEST-MD5"), "PW_ENCODING_HEX", MD5_RESULTLEN,
            "NULL", "digest_md5_generate"),
     Scheme(Str("PLAIN-MD4"), "PW_ENCODING_HEX", MD4_RESULTLEN,
            "NULL", "plain_md4_generate"),
     Scheme(Str("PLAIN-MD5"), "PW_ENCODING_HEX", MD5_RESULTLEN,
            "NULL", "plain_md5_generate"),
     Scheme(Str("LDAP-MD5"), "PW_ENCODING_BASE64", MD5_RESULTLEN,
            "NULL", "plain_md5_generate"),
     Scheme(Str("LANMAN"), "PW_ENCODING_HEX", LM_HASH_SIZE, "NULL", "lm_generate"),
     Scheme(Str("NTLM"), "PW_ENCODING_HEX", NTLMSSP_HASH_SIZE, "NULL", "ntlm_generate"),
     Scheme(Str("OTP"), "PW_ENCODING_NONE", 0, "otp_verify", "otp_generate"),
     Scheme(Str("SKEY"), "PW_ENCODING_NONE", 0, "otp_verify", "skey_generate"),
     Scheme(Str("RPA"), "PW_ENCODING_HEX", MD5_RESULTLEN, "NULL", "rpa_generate"),
     Scheme(NULL, "PW_ENCODING_NONE", 0, "NULL", "NULL") >>

\* the zeroed entry array_append_space() adds
Terminator == Scheme(NULL, "PW_ENCODING_NONE", 0, "NULL", "NULL")

(*************************************************************************)
(* Plugin modules the module loader may find in AUTH_MODULE_DIR/password. *)
(* A module is [name, symbols]; symbols maps symbol names to descriptors. *)
(*************************************************************************)

\* generators of plugin code: a digest of the plaintext
foo_generate(plaintext, user, rnd) == Generated(Digest(20, plaintext, 2))

sha_generate(plaintext, user, rnd) == Generated(Digest(21, plaintext, SHA1_RESULTLEN))

Modules ==
  { \* a scheme stored as text with a fixed length
    [name |-> "foo",
     symbols |-> [sym \in {"foo_scheme"} |->
        Scheme(Str("FOO"), "PW_ENCODING_NONE", 2, "NULL", "foo_generate")]],
    \* a scheme whose name a built-in scheme already has
    [name |-> "sha",
     symbols |-> [sym \in {"sha_scheme"} |->
        Scheme(Str("sha"), "PW_ENCODING_HEX", SHA1_RESULTLEN, "NULL", "sha_generate")]],
    \* a module that does not export <name>_scheme
    [name |-> "misc",
     symbols |-> [sym \in {"misc_init"} |-> Terminator]] }

\* module_get_symbol(mod, symbol): the descriptor, or NULL (here: Terminator
\* with found FALSE)
module_get_symbol(mod, symbol) ==
  IF symbol \in DOMAIN mod.symbols
  THEN [found |-> TRUE, s |-> mod.symbols[symbol]]
  ELSE [found |-> FALSE, s |-> Terminator]

CallGenerate(fn, plaintext, user, rnd) ==
  CASE fn = "crypt_generate" -> crypt_generate(plaintext, user, rnd)
    [] fn = "md5_crypt_generate" -> md5_crypt_generate(plaintext, user, rnd)
    [] fn = "sha1_generate" -> sha1_generate(plaintext, user, rnd)
    [] fn = "smd5_generate" -> smd5_generate(plaintext, user, rnd)
    [] fn = "ssha_generate" -> ssha_generate(plaintext, user, rnd)
    [] fn = "plain_generate" -> plain_generate(plaintext, user, rnd)
    [] fn = "cram_md5_generate" -> cram_md5_generate(plaintext, user, rnd)
    [] fn = "digest_md5_generate" -> digest_md5_generate(plaintext, user, rnd)
    [] fn = "plain_md4_generate" -> plain_md4_generate(plaintext, user, rnd)
    [] fn = "plain_md5_generate" -> plain_md5_generate(plaintext, user, rnd)
    [] fn = "lm_generate" -> lm_generate(plaintext, user, rnd)
    [] fn = "ntlm_generate" -> ntlm_generate(plaintext, user, rnd)
    [] fn = "otp_generate" -> otp_generate(plaintext, user, rnd)
    [] fn = "skey_generate" -> skey_generate(plaintext, user, rnd)
    [] fn = "rpa_generate" -> rpa_generate(plaintext, user, rnd)
    [] fn = "foo_generate" -> foo_generate(plaintext, user, rnd)
    [] fn = "sha_generate" -> sha_generate(plaintext, user, rnd)

CallVerify(fn, plaintext, user, raw_password, size) ==
  CASE fn = "crypt_verify" -> crypt_verify(plaintext, user, raw_password, size)
    [] fn = "md5_crypt_verify" -> md5_crypt_verify(plaintext, user, raw_password, size)
    [] fn = "smd5_verify" -> smd5_verify(plaintext, user, raw_password, size)
    [] fn = "ssha_verify" -> ssha_verify(plaintext, user, raw_password, size)
    [] fn = "otp_verify" -> otp_verify(plaintext, user, raw_password, size)

(*************************************************************************)
(* State                                                                  *)
(*************************************************************************)

VARIABLES
  schemes_arr,     \* the array schemes_arr: a sequence of descriptors
  schemes,         \* the pointer schemes: 0 is NULL, else an index into schemes_arr
  scheme_modules,  \* the loaded modules, in the loader's order
  listptr,         \* the caller's cursor for password_list_schemes, 0 is NULL
  listed,          \* the names the current pass of the cursor has returned
  call,            \* the last call of the caller and what it returned
  registry0        \* the array as password_schemes_init left it

vars == <<schemes_arr, schemes, scheme_modules, listptr, listed, call, registry0>>

(*************************************************************************)
(* The operations                                                         *)
(*************************************************************************)

\* the lookup loop without the test s->name[scheme_len] == '\0': a tag that
\* is a prefix of a name matches
RECURSIVE LookupFrom_prefix(_, _, _, _)
LookupFrom_prefix(i, scheme, scheme_len, encoding) ==
  LET s == schemes_arr[i]
  IN  IF s.name = NULL THEN [s |-> 0, encoding |-> "PW_ENCODING_NONE"]
      ELSE IF strncaseeq(s.name, scheme, scheme_len)
      THEN IF encoding = NULL
           THEN [s |-> i, encoding |-> s.default_encoding]
           ELSE IF strcaseeq(encoding, b64) \/ strcaseeq(encoding, base64)
           THEN [s |-> i, encoding |-> "PW_ENCODING_BASE64"]
           ELSE IF strcaseeq(encoding, hex)
           THEN [s |-> i, encoding |-> "PW_ENCODING_HEX"]
           ELSE [s |-> 0, encoding |-> "PW_ENCODING_NONE"]
      ELSE LookupFrom_prefix(i + 1, scheme, scheme_len, encoding)

\* the loop "for (s = schemes; s->name != NULL; s++)" of
\* password_scheme_lookup, from entry i on: the index of the entry returned
\* and the encoding stored through encoding_r; index 0 is NULL
RECURSIVE LookupFrom(_, _, _, _)
LookupFrom(i, scheme, scheme_len, encoding) ==
  LET s == schemes_arr[i]
  IN  IF s.name = NULL THEN [s |-> 0, encoding |-> "PW_ENCODING_NONE"]
      ELSE IF strncaseeq(s.name, scheme, scheme_len) /\ Len(s.name) = scheme_len
      THEN IF encoding = NULL
           THEN [s |-> i, encoding |-> s.default_encoding]
           ELSE IF strcaseeq(encoding, b64) \/ strcaseeq(encoding, base64)
           THEN [s |-> i, encoding |-> "PW_ENCODING_BASE64"]
           ELSE IF strcaseeq(encoding, hex)
           THEN [s |-> i, encoding |-> "PW_ENCODING_HEX"]
           ELSE [s |-> 0, encoding |-> "PW_ENCODING_NONE"]
      ELSE LookupFrom(i + 1, scheme, scheme_len, encoding)

password_scheme_lookup(scheme) ==
  LET dot == strchr(scheme, 1, 46)
      scheme_len == IF dot = 0 THEN Len(scheme) ELSE dot - 1
      encoding == IF dot = 0 THEN NULL ELSE SubSeq(scheme, dot + 1, Len(scheme))
  IN  LookupFrom(schemes, scheme, scheme_len, encoding)

\* the generic verification comparing the bytes both have, whatever the sizes
generic_verify_prefix(generated, generated_size, raw_password, size) ==
  LET n == IF size < generated_size THEN size ELSE generated_size
  IN  IF memeq(generated, raw_password, n) THEN 1 ELSE 0

\* the generic verification of password_verify:
\* size != generated_size ? 0 : memcmp(generated, raw_password, size) == 0
generic_verify(generated, generated_size, raw_password, size) ==
  IF size # generated_size THEN 0
  ELSE IF memeq(generated, raw_password, size) THEN 1 ELSE 0

\* password_verify: ret is the int returned; calls are the functions called
\* through the descriptor, then what they call
password_verify(plaintext, user, scheme, raw_password, size, rnd) ==
  LET l == password_scheme_lookup(scheme)
      s == schemes_arr[l.s]
  IN  IF l.s = 0 THEN [panic |-> FALSE, ret |-> -1, calls |-> <<>>]
      ELSE IF s.password_verify # "NULL"
      THEN LET v == CallVerify(s.password_verify, plaintext, user, raw_password, size)
           IN  [panic |-> v.panic,
                ret |-> IF v.match THEN 1 ELSE 0,
                calls |-> <<s.password_verify>> \o v.calls]
      ELSE LET g == CallGenerate(s.password_generate, plaintext, user, rnd)
               generated == g.raw
               generated_size == Len(g.raw)
           IN  [panic |-> g.panic,
                ret |-> IF g.panic THEN 0
                        ELSE generic_verify(generated, generated_size,
                                            raw_password, size),
                calls |-> <<s.password_generate>>]

\* password_list_schemes leaving the cursor on the terminator at the end
password_list_schemes_noreset(lp) ==
  LET p == IF lp = 0 THEN schemes ELSE lp
  IN  IF schemes_arr[p].name = NULL
      THEN [ret |-> NULL, listptr |-> p]
      ELSE [ret |-> schemes_arr[p].name, listptr |-> p + 1]

\* password_list_schemes(&listptr): the name returned and the new cursor
password_list_schemes(lp) ==
  LET p == IF lp = 0 THEN schemes ELSE lp
  IN  IF schemes_arr[p].name = NULL
      THEN [ret |-> NULL, listptr |-> 0]
      ELSE [ret |-> schemes_arr[p].name, listptr |-> p + 1]

\* password_get_scheme cutting after, not before, the '$' that follows the
\* digest segment
password_get_scheme_keeps_dollar(password) ==
  LET unchanged == [ret |-> NULL, password |-> password]
      braces ==
        IF password = <<>> \/ password[1] # 123 THEN unchanged
        ELSE LET p == strchr(password, 1, 125)
             IN  IF p = 0 THEN unchanged
                 ELSE [ret |-> SubSeq(password, 2, p - 1),
                       password |-> SubSeq(password, p + 1, Len(password))]
  IN  IF password = NULL THEN unchanged
      ELSE IF Len(password) >= 3 /\ SubSeq(password, 1, 3) = md5_crypt_magic
      THEN LET p == strchr(password, 4, 36)
           IN  IF p # 0
               THEN LET q == strchr(password, p + 1, 36)
                    IN  [ret |-> MD5_CRYPT,
                         password |-> IF q # 0 THEN SubSeq(password, 1, q)
                                      ELSE password]
               ELSE braces
      ELSE braces

\* password_get_scheme(&password): the scheme returned and the working
\* string *password afterwards
password_get_scheme(password) ==
  LET unchanged == [ret |-> NULL, password |-> password]
      braces ==
        IF password = <<>> \/ password[1] # 123 THEN unchanged
        ELSE LET p == strchr(password, 1, 125)
             IN  IF p = 0 THEN unchanged
                 ELSE [ret |-> SubSeq(password, 2, p - 1),
                       password |-> SubSeq(password, p + 1, Len(password))]
  IN  IF password = NULL THEN unchanged
      ELSE IF Len(password) >= 3 /\ SubSeq(password, 1, 3) = md5_crypt_magic
      THEN LET p == strchr(password, 4, 36)
           IN  IF p # 0
               THEN LET q == strchr(password, p + 1, 36)
                    IN  [ret |-> MD5_CRYPT,
                         password |-> IF q # 0 THEN SubSeq(password, 1, q - 1)
                                      ELSE password]
               ELSE braces
      ELSE braces

\* the detection taking a text of raw_password_len characters, not twice
\* as many, for hex
decode_encoding_len(encoding, raw_password_len, scheme, len) ==
  IF encoding # "PW_ENCODING_NONE" /\ raw_password_len # 0
     /\ strchr(scheme, 1, 46) = 0
  THEN IF len = raw_password_len THEN "PW_ENCODING_HEX"
       ELSE "PW_ENCODING_BASE64"
  ELSE encoding

\* the encoding password_decode decodes with: the one the lookup gave, or
\* the one detected from the length of the text
decode_encoding(encoding, raw_password_len, scheme, len) ==
  IF encoding # "PW_ENCODING_NONE" /\ raw_password_len # 0
     /\ strchr(scheme, 1, 46) = 0
  THEN IF len = raw_password_len * 2 THEN "PW_ENCODING_HEX"
       ELSE "PW_ENCODING_BASE64"
  ELSE encoding

\* the length check refusing only what is too short
decode_length_atleast(raw_password_len, size) ==
  IF size < raw_password_len /\ raw_password_len # 0 THEN -1 ELSE 1

\* the length check that ends password_decode, on size_r
decode_length(raw_password_len, size) ==
  IF raw_password_len # size /\ raw_password_len # 0 THEN -1 ELSE 1

\* password_decode: wrote is the set of output parameters stored through,
\* calls the codec functions called
password_decode(password, scheme) ==
  LET l == password_scheme_lookup(scheme)
      s == schemes_arr[l.s]
      len == Len(password)
      encoding == decode_encoding(l.encoding, s.raw_password_len, scheme, len)
      fail(calls) == [ret |-> -1, wrote |-> {}, raw_password_r |-> <<>>,
                      size_r |-> 0, calls |-> calls]
      done(raw, calls) ==
        [ret |-> decode_length(s.raw_password_len, Len(raw)),
         wrote |-> {"raw_password_r", "size_r"},
         raw_password_r |-> raw, size_r |-> Len(raw), calls |-> calls]
  IN  IF l.s = 0
      THEN [ret |-> 0, wrote |-> {}, raw_password_r |-> <<>>, size_r |-> 0,
            calls |-> <<>>]
      ELSE CASE encoding = "PW_ENCODING_NONE" -> done(password, <<>>)
             [] encoding = "PW_ENCODING_BASE64" ->
                  LET d == base64_decode(password, 1, <<>>)
                  IN  IF d.ret < 0 THEN fail(<<"base64_decode">>)
                      ELSE done(d.data, <<"base64_decode">>)
             [] encoding = "PW_ENCODING_HEX" ->
                  LET d == hex_to_binary(password)
                  IN  IF d.ret < 0 THEN fail(<<"hex_to_binary">>)
                      ELSE done(d.data, <<"hex_to_binary">>)

password_generate(plaintext, user, scheme, rnd) ==
  LET l == password_scheme_lookup(scheme)
      s == schemes_arr[l.s]
  IN  IF l.s = 0
      THEN [panic |-> FALSE, ret |-> FALSE, wrote |-> {}, raw_password_r |-> <<>>,
            size_r |-> 0, calls |-> <<>>]
      ELSE LET g == CallGenerate(s.password_generate, plaintext, user, rnd)
           IN  IF g.panic
               THEN [panic |-> TRUE, ret |-> FALSE, wrote |-> {},
                     raw_password_r |-> <<>>, size_r |-> 0,
                     calls |-> <<s.password_generate>>]
               ELSE [panic |-> FALSE, ret |-> TRUE,
                     wrote |-> {"raw_password_r", "size_r"},
                     raw_password_r |-> g.raw, size_r |-> Len(g.raw),
                     calls |-> <<s.password_generate>>]

password_generate_encoded(plaintext, user, scheme, rnd) ==
  LET l == password_scheme_lookup(scheme)
      s == schemes_arr[l.s]
  IN  IF l.s = 0
      THEN [panic |-> FALSE, ret |-> FALSE, wrote |-> {}, password_r |-> <<>>,
            calls |-> <<>>]
      ELSE LET g == CallGenerate(s.password_generate, plaintext, user, rnd)
               raw_password == g.raw
               size == Len(g.raw)
           IN  IF g.panic
               THEN [panic |-> TRUE, ret |-> FALSE, wrote |-> {},
                     password_r |-> <<>>, calls |-> <<s.password_generate>>]
               ELSE [panic |-> FALSE, ret |-> TRUE, wrote |-> {"password_r"},
                     password_r |->
                       CASE l.encoding = "PW_ENCODING_NONE" ->
                              t_strndup(raw_password, size)
                         [] l.encoding = "PW_ENCODING_BASE64" ->
                              base64_encode(raw_password)
                         [] l.encoding = "PW_ENCODING_HEX" ->
                              binary_to_hex(raw_password),
                     calls |-> <<s.password_generate>>]

\* the loop of password_scheme_is_alias from entry i on: the entries s1 and
\* s2 it ends with, 0 for NULL
RECURSIVE AliasLoop(_, _, _, _, _)
AliasLoop(i, scheme1, scheme2, s1, s2) ==
  LET s == schemes_arr[i]
  IN  IF s.name = NULL THEN [s1 |-> s1, s2 |-> s2]
      ELSE IF strcaseeq(s.name, scheme1)
      THEN AliasLoop(i + 1, scheme1, scheme2, i, s2)
      ELSE IF strcaseeq(s.name, scheme2)
      THEN AliasLoop(i + 1, scheme1, scheme2, s1, i)
      ELSE AliasLoop(i + 1, scheme1, scheme2, s1, s2)

password_scheme_is_alias(a, b) ==
  LET scheme1 == t_strcut(a, 46)
      scheme2 == t_strcut(b, 46)
  IN  IF strcaseeq(scheme1, scheme2) THEN TRUE
      ELSE LET r == AliasLoop(schemes, scheme1, scheme2, 0, 0)
           IN  /\ r.s1 # 0
               /\ r.s2 # 0
               /\ schemes_arr[r.s1].password_generate
                    = schemes_arr[r.s2].password_generate

(*************************************************************************)
(* Inputs of the callers                                                  *)
(*************************************************************************)

MaxModules == 2     \* modules the loader finds, at most
MaxRandom == 1      \* the random streams are numbered 0..MaxRandom
MaxRawLen == 2      \* length of the arbitrary stored byte strings
MaxTextLen == 4     \* length of the arbitrary strings given to password_get_scheme

Rep(c, n) == [i \in 1..n |-> c]

SeqsUpTo(alphabet, n) == UNION { [1..k -> alphabet] : k \in 0..n }

\* the lists of distinct modules the loader may return
ModuleLists ==
  { ms \in SeqsUpTo(Modules, MaxModules) :
      \A i, j \in 1..Len(ms) : i # j => ms[i] # ms[j] }

\* what random_fill() may deliver to one call
RandomStreams == { [i \in 1..8 |-> (k * 201 + i * 59) % 256] : k \in 0..MaxRandom }

Plaintexts == { Str("secret"), <<>> }

Users == { NULL, Str("joe@example.org") }

BuiltinNames == { default_schemes[i].name : i \in 1..(Len(default_schemes) - 1) }

Suffixes == { <<>>, Str(".hex"), Str(".b64"), Str(".base64") }

\* every built-in name with every encoding suffix, names of plugin schemes,
\* and tags of other shapes
Tags ==
  { n \o x : n \in BuiltinNames, x \in Suffixes }
  \cup { Str("FOO"), Str("foo.hex"), Str("sha"), Str("sha1"), Str("Ssha.B64"),
         Str("Plain.HEX"), Str("ntlm.Base64") }
  \cup { Str("FOOBAR"), <<>>, Str(".hex"), Str("SH"), Str("SHA12"), Str("SHA."),
         Str("SHA.md5"), Str("SHA.he"), Str("SHA.hex.b64"), Str("PLAIN.hexx"),
         Str("MD5-"), Str("CRYPT.none") }

\* the tags given to password_verify along with arbitrary stored bytes
VerifyTags ==
  BuiltinNames
  \cup { Str("SSHA.hex"), Str("crypt.b64"), Str("FOO"), Str("sha"), Str("FOOBAR"),
         Str("SHA.md5"), Str("SHA."), <<>> }

\* the tags of the calls made while the enumeration cursor moves
FewTags == { Str("SHA"), Str("CRYPT.hex"), Str("FOO"), Str("FOOBAR") }

DecodeTexts ==
  { Rep(48, n) : n \in {0, 1, 2, 4, 24, 28, 32, 40, 64} }
  \cup { Str("YWI="), Str("zz"), Str("0g"), Str("a$b"), Str("6162") }

StoredRaws ==
  SeqsUpTo({0, 97}, MaxRawLen)
  \cup { Rep(0, n) : n \in {MD5_RESULTLEN, MD5_RESULTLEN + 1,
                            SHA1_RESULTLEN, SHA1_RESULTLEN + 1} }
  \cup { Str("secret"), Str("$1$ab$cd"), <<51, 9, 97, 9, 48>> }

\* the stored bytes of the calls made while the enumeration cursor moves
FewRaws == { <<>>, Str("secret") }

AliasNames ==
  { Str("MD5"), Str("MD5-CRYPT"), Str("SHA"), Str("SHA1"), Str("PLAIN"),
    Str("CLEARTEXT"), Str("NTLM"), Str("CRAM-MD5"), Str("HMAC-MD5"),
    Str("PLAIN-MD5"), Str("LDAP-MD5") }
  \cup { Str("FOO"), Str("sha"), Str("sha1.hex"), Str("SHA.bogus"), Str("md5.b64"),
         Str("FOOBAR"), Str("foobar.hex"), <<>>, Str(".hex") }

GetSchemeInputs ==
  SeqsUpTo({36, 49, 123, 125, 97}, MaxTextLen)
  \cup { NULL, Str("$1$abcd$hashvalue$ignored"), Str("$1$abcd$hashvalue"),
         Str("{PLAIN}secret"), Str("{SSHA.hex}0a}b{c"), Str("{$1$a$b$c}d") }

(*************************************************************************)
(* Actions                                                                *)
(*************************************************************************)

Idle == [op |-> "idle"]

Init ==
  /\ schemes_arr = <<>>
  /\ schemes = 0
  /\ scheme_modules = <<>>
  /\ listptr = 0
  /\ listed = <<>>
  /\ call = [op |-> "start"]
  /\ registry0 = <<>>

\* the loop "for (s = default_schemes; s->name != NULL; s++) array_append"
RECURSIVE AppendDefaults(_, _)
AppendDefaults(arr, i) ==
  IF default_schemes[i].name = NULL THEN arr
  ELSE AppendDefaults(Append(arr, default_schemes[i]), i + 1)

\* the loop over the loaded modules: "<name>_scheme" is appended if exported
RECURSIVE AppendModules(_, _, _)
AppendModules(arr, mods, i) ==
  IF i > Len(mods) THEN arr
  ELSE LET symbol == mods[i].name \o "_scheme"
           s == module_get_symbol(mods[i], symbol)
       IN  AppendModules(IF s.found THEN Append(arr, s.s) ELSE arr, mods, i + 1)

password_schemes_init ==
  /\ call.op = "start"
  /\ \E mods \in ModuleLists :
       /\ scheme_modules' = mods
       /\ schemes_arr' = Append(AppendModules(AppendDefaults(<<>>, 1), mods, 1), Terminator)
  /\ schemes' = 1
  /\ registry0' = schemes_arr'
  /\ call' = Idle
  /\ UNCHANGED <<listptr, listed>>

password_schemes_deinit ==
  /\ call.op = "idle"
  /\ scheme_modules' = <<>>
  /\ schemes_arr' = <<>>
  /\ schemes' = 0
  /\ call' = [op |-> "deinit"]
  /\ UNCHANGED <<listptr, listed, registry0>>

registry == <<schemes_arr, schemes, scheme_modules, registry0>>

\* the caller calls password_verify on stored bytes of its own
Verify(tags, raws) ==
  /\ call.op = "idle"
  /\ \E plaintext \in Plaintexts, user \in Users, scheme \in tags,
        raw \in raws, rnd \in RandomStreams :
       call' = [op |-> "verify", plaintext |-> plaintext, user |-> user,
                scheme |-> scheme, raw |-> raw, from |-> Idle,
                res |-> password_verify(plaintext, user, scheme, raw, Len(raw), rnd)]
  /\ UNCHANGED <<registry, listptr, listed>>

Decode(tags) ==
  /\ call.op = "idle"
  /\ \E password \in DecodeTexts, scheme \in tags :
       call' = [op |-> "decode", password |-> password, scheme |-> scheme,
                from |-> Idle, res |-> password_decode(password, scheme)]
  /\ UNCHANGED <<registry, listptr, listed>>

Generate(tags) ==
  /\ call.op = "idle"
  /\ \E plaintext \in Plaintexts, user \in Users, scheme \in tags,
        rnd \in RandomStreams :
       call' = [op |-> "generate", plaintext |-> plaintext, user |-> user,
                scheme |-> scheme, rnd |-> rnd, from |-> Idle,
                res |-> password_generate(plaintext, user, scheme, rnd)]
  /\ UNCHANGED <<registry, listptr, listed>>

GenerateEncoded(tags) ==
  /\ call.op = "idle"
  /\ \E plaintext \in Plaintexts, user \in Users, scheme \in tags,
        rnd \in RandomStreams :
       call' = [op |-> "generate_encoded", plaintext |-> plaintext, user |-> user,
                scheme |-> scheme, rnd |-> rnd, from |-> Idle,
                res |-> password_generate_encoded(plaintext, user, scheme, rnd)]
  /\ UNCHANGED <<registry, listptr, listed>>

\* the caller decodes the text password_generate_encoded has just produced,
\* under the same tag
DecodeGenerated ==
  /\ call.op = "generate_encoded"
  /\ "password_r" \in call.res.wrote
  /\ call' = [op |-> "decode", password |-> call.res.password_r,
              scheme |-> call.scheme, from |-> call,
              res |-> password_decode(call.res.password_r, call.scheme)]
  /\ UNCHANGED <<registry, listptr, listed>>

\* the caller verifies the plaintext of that generation against the bytes
\* password_decode has just produced
VerifyDecoded ==
  /\ call.op = "decode"
  /\ call.from.op = "generate_encoded"
  /\ "raw_password_r" \in call.res.wrote
  /\ \E rnd \in RandomStreams :
       call' = [op |-> "verify", plaintext |-> call.from.plaintext,
                user |-> call.from.user, scheme |-> call.scheme,
                raw |-> call.res.raw_password_r, from |-> call,
                res |-> password_verify(call.from.plaintext, call.from.user,
                                        call.scheme, call.res.raw_password_r,
                                        call.res.size_r, rnd)]
  /\ UNCHANGED <<registry, listptr, listed>>

IsAlias(names) ==
  /\ call.op = "idle"
  /\ \E a \in names, b \in names :
       call' = [op |-> "is_alias", a |-> a, b |-> b, from |-> Idle,
                res |-> password_scheme_is_alias(a, b)]
  /\ UNCHANGED <<registry, listptr, listed>>

\* password_get_scheme reads no registry: it may be called before
\* password_schemes_init as well
GetScheme(inputs) ==
  /\ call.op \in {"start", "idle"}
  /\ \E password \in inputs :
       call' = [op |-> "get_scheme", password |-> password, from |-> Idle,
                res |-> password_get_scheme(password)]
  /\ UNCHANGED <<registry, listptr, listed>>

ListSchemes ==
  /\ call.op = "idle"
  /\ LET r == password_list_schemes(listptr)
     IN  /\ listptr' = r.listptr
         /\ listed' = IF r.ret = NULL THEN listed
                      ELSE IF listptr = 0 THEN <<r.ret>>
                      ELSE Append(listed, r.ret)
         /\ call' = [op |-> "list", listptr |-> listptr, from |-> Idle, res |-> r]
  /\ UNCHANGED registry

\* the call is over; the caller makes the next one
Return ==
  /\ call.op \notin {"start", "idle", "deinit"}
  /\ call' = IF schemes = 0 THEN [op |-> "start"] ELSE Idle
  /\ UNCHANGED <<registry, listptr, listed>>

\* the dispatch operations on every tag; the enumeration cursor stays put
Next ==
  \/ password_schemes_init
  \/ Verify(VerifyTags, StoredRaws)
  \/ Decode(Tags)
  \/ Generate(Tags)
  \/ GenerateEncoded(Tags)
  \/ DecodeGenerated
  \/ VerifyDecoded
  \/ IsAlias(AliasNames)
  \/ Return
  \/ password_schemes_deinit

Spec == Init /\ [][Next]_vars

\* the whole life of the registry, with the enumeration; the other
\* operations on a few tags
NextRegistry ==
  \/ password_schemes_init
  \/ ListSchemes
  \/ Verify(FewTags, FewRaws)
  \/ Decode(FewTags)
  \/ Generate(FewTags)
  \/ GenerateEncoded(FewTags)
  \/ IsAlias(FewTags)
  \/ GetScheme({NULL, Str("{PLAIN}secret"), Str("$1$abcd$hashvalue$ignored")})
  \/ Return
  \/ password_schemes_deinit

SpecRegistry == Init /\ [][NextRegistry]_vars

\* password_get_scheme alone, on every short string
NextGetScheme ==
  \/ GetScheme(GetSchemeInputs)
  \/ Return

SpecGetScheme == Init /\ [][NextGetScheme]_vars

(*************************************************************************)
(* Properties                                                             *)
(*************************************************************************)

Lower(str) == [i \in 1..Len(str) |-> tolower(str[i])]

Range(f) == { f[i] : i \in DOMAIN f }

\* the part of a tag before its first '.', and the part after it
BaseName(tag) ==
  IF \E i \in 1..Len(tag) : tag[i] = 46
  THEN SubSeq(tag, 1, (CHOOSE i \in 1..Len(tag) :
                         tag[i] = 46 /\ \A k \in 1..(i - 1) : tag[k] # 46) - 1)
  ELSE tag

HasSuffix(tag) == \E i \in 1..Len(tag) : tag[i] = 46

Suffix(tag) == SubSeq(tag, Len(BaseName(tag)) + 2, Len(tag))

\* the tag names a built-in scheme and its suffix, if any, is an encoding
BuiltinTag(tag) ==
  /\ \E n \in BuiltinNames : Lower(n) = Lower(BaseName(tag))
  /\ HasSuffix(tag) => Lower(Suffix(tag)) \in {hex, b64, base64}

\* the call is the decoding of a text just generated for a built-in scheme
\* and a username
RoundTripDecode ==
  /\ call.op = "decode"
  /\ call.from.op = "generate_encoded"
  /\ BuiltinTag(call.scheme)
  /\ call.from.user # NULL

\* the call is the verification that follows such a decoding
RoundTripVerify ==
  /\ call.op = "verify"
  /\ call.from.op = "decode"
  /\ call.from.from.op = "generate_encoded"
  /\ BuiltinTag(call.scheme)
  /\ call.user # NULL

\* C1: round trip: the text password_generate_encoded produces for a built-in
\* scheme (with or without an encoding suffix), a plaintext, a username and
\* any salt decodes with result 1 under the same tag, and the plaintext
\* verifies (result 1) against the decoded bytes.
C1_RoundTrip ==
  /\ RoundTripDecode => call.res.ret = 1
  /\ RoundTripVerify => ~call.res.panic /\ call.res.ret = 1

\* a salted scheme with an explicit encoding has gone round
C1_Witness ==
  /\ RoundTripVerify
  /\ call.scheme = Str("SSHA.hex")
  /\ call.plaintext = Str("secret")
  /\ call.res.ret = 1

\* the registry entry a tag resolves to
Resolved(tag) == schemes_arr[password_scheme_lookup(tag).s]

\* C2: verify dispatch: a resolved scheme with a custom verifier gives that
\* verifier's result and the generator is not called; a resolved scheme
\* without one gives a match iff the generator's output equals the stored
\* bytes in length and content.
C2_VerifyDispatch ==
  (call.op = "verify" /\ password_scheme_lookup(call.scheme).s # 0
     /\ ~call.res.panic) =>
    LET s == Resolved(call.scheme)
    IN  IF s.password_verify # "NULL"
        THEN /\ call.res.calls[1] = s.password_verify
             /\ s.password_generate \notin Range(call.res.calls)
             /\ call.res.ret =
                  (IF CallVerify(s.password_verify, call.plaintext, call.user,
                                 call.raw, Len(call.raw)).match THEN 1 ELSE 0)
        ELSE /\ call.res.ret \in {0, 1}
             /\ \A rnd \in RandomStreams :
                  LET g == CallGenerate(s.password_generate, call.plaintext,
                                        call.user, rnd).raw
                  IN  (call.res.ret = 1) <=> (Len(g) = Len(call.raw) /\ g = call.raw)

\* the generic comparison has refused stored bytes shorter than the
\* generator's output
C2_Witness ==
  /\ call.op = "verify"
  /\ call.scheme = Str("PLAIN")
  /\ call.plaintext = Str("secret")
  /\ call.raw = <<>>
  /\ call.res.ret = 0

\* the names of the registry, the terminator left out
RegisteredNames ==
  { schemes_arr[i].name : i \in { k \in 1..Len(schemes_arr) : schemes_arr[k].name # NULL } }

\* the tag is one the claim accepts
Accepted(tag) ==
  /\ \E n \in RegisteredNames : Lower(n) = Lower(BaseName(tag))
  /\ HasSuffix(tag) => Lower(Suffix(tag)) \in {hex, b64, base64}

\* the call reported an unknown scheme, called nothing and stored nothing
UnknownScheme(c) ==
  /\ c.res.calls = <<>>
  /\ CASE c.op = "decode" -> c.res.ret = 0 /\ c.res.wrote = {}
       [] c.op = "verify" -> c.res.ret = -1 /\ ~c.res.panic
       [] c.op = "generate" -> c.res.ret = FALSE /\ c.res.wrote = {} /\ ~c.res.panic
       [] c.op = "generate_encoded" ->
            c.res.ret = FALSE /\ c.res.wrote = {} /\ ~c.res.panic

\* C3: tag acceptance: decode, verify, generate and generate_encoded accept a
\* tag iff its base name is a registered name in full (case-insensitive) and
\* its suffix, if any, is hex, b64 or base64 (case-insensitive); every other
\* tag gives the unknown-scheme result, with no generator or verifier called
\* and no output parameter written.
C3_TagAcceptance ==
  call.op \in {"decode", "verify", "generate", "generate_encoded"} =>
    (UnknownScheme(call) <=> ~Accepted(call.scheme))

\* a registered name with an unknown suffix has been refused
C3_Witness ==
  /\ call.op = "generate_encoded"
  /\ call.scheme = Str("SHA.md5")
  /\ UnknownScheme(call)

\* the raw lengths of the spec's table of algorithms
SpecLengths ==
  { <<Str("SHA"), 20>>, <<Str("SHA1"), 20>>, <<Str("SMD5"), 20>>,
    <<Str("SSHA"), 24>>, <<Str("CRAM-MD5"), 32>>, <<Str("HMAC-MD5"), 32>>,
    <<Str("DIGEST-MD5"), 16>>, <<Str("PLAIN-MD4"), 16>>, <<Str("PLAIN-MD5"), 16>>,
    <<Str("LDAP-MD5"), 16>>, <<Str("LANMAN"), 16>>, <<Str("NTLM"), 16>>,
    <<Str("RPA"), 16>> }

\* the schemes of that table that the descriptors give a length
CheckedLengths ==
  { e \in SpecLengths : e[1] \notin {Str("SMD5"), Str("SSHA"), Str("CRAM-MD5")} }

\* the call decoded a well-formed text, under a tag of one of the schemes of
\* lengths, to a number of bytes that is not the scheme's length
WrongLength(lengths) ==
  /\ call.op = "decode"
  /\ BuiltinTag(call.scheme)
  /\ "size_r" \in call.res.wrote
  /\ \E e \in lengths :
       Lower(e[1]) = Lower(BaseName(call.scheme)) /\ call.res.size_r # e[2]

\* C4 as claimed: for every scheme the spec's table gives a fixed raw length,
\* SMD5, SSHA and CRAM-MD5 among them, password_decode answers -1 to a
\* well-formed text of another decoded length.
C4_Original == WrongLength(SpecLengths) => call.res.ret = -1

\* C4, amended: password_decode answers -1 to a well-formed text of another
\* decoded length for SHA, SHA1, HMAC-MD5, DIGEST-MD5, PLAIN-MD4, PLAIN-MD5,
\* LDAP-MD5, LANMAN, NTLM and RPA; for SMD5, SSHA and CRAM-MD5 it answers 1
\* to every well-formed text, of any decoded length.
C4_LengthCheck ==
  /\ WrongLength(CheckedLengths) => call.res.ret = -1
  /\ (call.op = "decode" /\ BuiltinTag(call.scheme) /\ "size_r" \in call.res.wrote
        /\ Lower(BaseName(call.scheme)) \in
             {Lower(Str("SMD5")), Lower(Str("SSHA")), Lower(Str("CRAM-MD5"))})
       => call.res.ret = 1

\* four characters of base64 under SHA: three bytes, refused
C4_Witness ==
  /\ WrongLength(CheckedLengths)
  /\ call.scheme = Str("SHA")
  /\ call.password = Rep(48, 4)
  /\ call.res.size_r = 3
  /\ call.res.ret = -1

\* the codec function a suffix names, and the one of an encoding
SuffixCodec(tag) ==
  IF Lower(Suffix(tag)) = hex THEN <<"hex_to_binary">> ELSE <<"base64_decode">>

EncodingCodec(encoding) ==
  CASE encoding = "PW_ENCODING_NONE" -> <<>>
    [] encoding = "PW_ENCODING_BASE64" -> <<"base64_decode">>
    [] encoding = "PW_ENCODING_HEX" -> <<"hex_to_binary">>

LengthCodec(text, L) ==
  IF Len(text) = 2 * L THEN <<"hex_to_binary">> ELSE <<"base64_decode">>

\* the text itself came back as the raw bytes
Untouched ==
  /\ call.res.wrote = {"raw_password_r", "size_r"}
  /\ call.res.raw_password_r = call.password
  /\ call.res.size_r = Len(call.password)

\* C5 as claimed: with a suffix the codec the suffix names; without one and
\* with a nonzero raw length L, hex for a text of length 2*L and base64 for
\* any other, whatever the default encoding; without one and with L = 0 the
\* default encoding, None giving the text itself.
C5_Original ==
  (call.op = "decode" /\ password_scheme_lookup(call.scheme).s # 0) =>
    LET s == Resolved(call.scheme)
        L == s.raw_password_len
    IN  /\ HasSuffix(call.scheme) => call.res.calls = SuffixCodec(call.scheme)
        /\ (~HasSuffix(call.scheme) /\ L # 0) =>
             call.res.calls = LengthCodec(call.password, L)
        /\ (~HasSuffix(call.scheme) /\ L = 0) =>
             /\ call.res.calls = EncodingCodec(s.default_encoding)
             /\ s.default_encoding = "PW_ENCODING_NONE" => Untouched

\* C5, amended: with a suffix the codec the suffix names; without one, with a
\* nonzero raw length L and a default encoding of hex or base64, hex for a
\* text of length 2*L and base64 for any other; without one and with L = 0 or
\* a default encoding of None, the default encoding, None giving the text
\* itself.
C5_EncodingSelection ==
  (call.op = "decode" /\ password_scheme_lookup(call.scheme).s # 0) =>
    LET s == Resolved(call.scheme)
        L == s.raw_password_len
        none == s.default_encoding = "PW_ENCODING_NONE"
    IN  /\ HasSuffix(call.scheme) => call.res.calls = SuffixCodec(call.scheme)
        /\ (~HasSuffix(call.scheme) /\ L # 0 /\ ~none) =>
             call.res.calls = LengthCodec(call.password, L)
        /\ (~HasSuffix(call.scheme) /\ (L = 0 \/ none)) =>
             /\ call.res.calls = EncodingCodec(s.default_encoding)
             /\ none => Untouched

\* forty characters under SHA, whose default is base64, were decoded as hex
C5_Witness ==
  /\ call.op = "decode"
  /\ call.scheme = Str("SHA")
  /\ call.password = Rep(48, 40)
  /\ call.res.calls = <<"hex_to_binary">>
  /\ call.res.ret = 1

Registered(name) == \E n \in RegisteredNames : Lower(n) = Lower(name)

\* C6: alias equivalence: is_alias(a, b) is true iff the base names are equal
\* (case-insensitive), or both are registered and the descriptors they
\* resolve to have the same generator; the result does not depend on the
\* order of a and b.
C6_Alias ==
  call.op = "is_alias" =>
    LET a == BaseName(call.a)
        b == BaseName(call.b)
    IN  /\ call.res <=>
             \/ Lower(a) = Lower(b)
             \/ /\ Registered(a)
                /\ Registered(b)
                /\ Resolved(a).password_generate = Resolved(b).password_generate
        /\ call.res = password_scheme_is_alias(call.b, call.a)

Min(S) == CHOOSE m \in S : \A k \in S : m <= k

Positions(str, c, from) == { i \in from..Len(str) : str[i] = c }

\* C7: tag extraction: a string that starts with "$1$" and has a '$' after
\* that gives "MD5-CRYPT" and is cut before the next '$' after the digest
\* segment, if there is one; otherwise a string that starts with '{' and
\* holds a '}' gives the text between them and becomes the text after the
\* first '}'; any other string gives NULL and is left as it is.
C7_GetScheme ==
  (call.op = "get_scheme" /\ call.password # NULL) =>
    LET p == call.password
        d1 == Positions(p, 36, 4)
        d2 == { i \in d1 : i > Min(d1) }
        cb == Positions(p, 125, 1)
    IN  IF Len(p) >= 3 /\ SubSeq(p, 1, 3) = md5_crypt_magic /\ d1 # {}
        THEN /\ call.res.ret = MD5_CRYPT
             /\ call.res.password = IF d2 # {} THEN SubSeq(p, 1, Min(d2) - 1) ELSE p
        ELSE IF Len(p) >= 1 /\ p[1] = 123 /\ cb # {}
        THEN /\ call.res.ret = SubSeq(p, 2, Min(cb) - 1)
             /\ call.res.password = SubSeq(p, Min(cb) + 1, Len(p))
        ELSE /\ call.res.ret = NULL
             /\ call.res.password = p

\* the legacy string of the spec has lost its trailing segment
C7_Witness ==
  /\ call.op = "get_scheme"
  /\ call.password = Str("$1$abcd$hashvalue$ignored")
  /\ call.res.ret = MD5_CRYPT
  /\ call.res.password = Str("$1$abcd$hashvalue")

\* C8: malformed stored values: for a registered scheme, any plaintext, a
\* username and any stored bytes, password_verify returns 1 or 0 and does not
\* abort; empty stored bytes under CRYPT give 0; stored bytes shorter than
\* the digest under SSHA or SMD5 give 0.
C8_NoAbort ==
  (call.op = "verify" /\ Accepted(call.scheme) /\ call.user # NULL) =>
    LET name == Lower(BaseName(call.scheme))
    IN  /\ ~call.res.panic
        /\ call.res.ret \in {0, 1}
        /\ (name = Lower(Str("CRYPT")) /\ call.raw = <<>>) => call.res.ret = 0
        /\ (name = Lower(Str("SSHA")) /\ Len(call.raw) < SHA1_RESULTLEN) =>
             call.res.ret = 0
        /\ (name = Lower(Str("SMD5")) /\ Len(call.raw) < MD5_RESULTLEN) =>
             call.res.ret = 0

\* an empty stored value under CRYPT was refused
C8_Witness ==
  /\ call.op = "verify"
  /\ call.scheme = Str("CRYPT")
  /\ call.user # NULL
  /\ call.raw = <<>>
  /\ call.res.ret = 0

\* the names of the first k entries of the registry
Names(k) == [i \in 1..k |-> schemes_arr[i].name]

\* the descriptors the loaded modules export, in the loader's order
RECURSIVE Exported(_)
Exported(mods) ==
  IF mods = <<>> THEN <<>>
  ELSE LET m == Head(mods)
           sym == m.name \o "_scheme"
       IN  (IF sym \in DOMAIN m.symbols THEN <<m.symbols[sym]>> ELSE <<>>)
           \o Exported(Tail(mods))

\* the built-in descriptors in table order, then the plugin descriptors in
\* discovery order
ExpectedEntries == SubSeq(default_schemes, 1, Len(default_schemes) - 1)
                   \o Exported(scheme_modules)

\* C9: enumeration: from a NULL cursor, password_list_schemes returns the
\* name of every registry entry once, in registry order (built-ins in table
\* order, then plugins in discovery order), then NULL once with the cursor
\* back at NULL, and then starts again with the first name; the registry
\* does not change.
C9_Enumeration ==
  schemes # 0 =>
    /\ schemes_arr = registry0
    /\ listptr # 0 =>
         /\ listptr <= Len(schemes_arr)
         /\ listed = Names(listptr - 1)
         /\ \A i \in 1..Len(listed) : listed[i] = ExpectedEntries[i].name
    /\ call.op = "list" =>
         /\ call.listptr = 0 => call.res.ret = ExpectedEntries[1].name
         /\ call.res.ret # NULL => call.res.ret = listed[Len(listed)]
         /\ call.res.ret = NULL =>
              /\ call.listptr # 0
              /\ listptr = 0
              /\ Len(listed) = Len(ExpectedEntries)
              /\ \A i \in 1..Len(listed) : listed[i] = ExpectedEntries[i].name

\* a pass over built-ins and two plugins has ended
C9_Witness ==
  /\ call.op = "list"
  /\ call.res.ret = NULL
  /\ listptr = 0
  /\ Len(listed) = Len(default_schemes) + 1

\* C10: registry invariant: between init and deinit, for any modules found
\* and after any calls, the registry is the built-in descriptors in table
\* order, then the plugin descriptors in discovery order, then one
\* terminator; no two entries have the same name (case-insensitive); the
\* content is as init left it.
C10_Registry ==
  schemes # 0 =>
    /\ schemes_arr = Append(ExpectedEntries, Terminator)
    /\ \A i, k \in 1..(Len(schemes_arr) - 1) :
         i # k => Lower(schemes_arr[i].name) # Lower(schemes_arr[k].name)
    /\ schemes_arr = registry0

=============================================================================
